---- MODULE Spec2Model ----
(***************************************************************************)
(* Session persistence of whatsapp-gdrive-forwarder: SupabaseAuth          *)
(* (src/SupabaseAuth.js) and the wiring around it (src/index.js).          *)
(*                                                                         *)
(* Both files hold two variants of the program: the continuous one (a      *)
(* chokidar watcher persists on every file event) and the manual one (no   *)
(* watcher, a GET /backup-session route persists on demand).  The variable *)
(* mode says which variant runs.                                           *)
(*                                                                         *)
(* JavaScript runs one handler at a time and gives up control only at an   *)
(* await of real I/O, so an action is one handler (or one continuation)    *)
(* from the point it is entered to its next await of a remote call, with   *)
(* every awaiting caller that resumes in the same turn included.           *)
(*                                                                         *)
(* A handler that rejects is left rejected and the process goes on: a      *)
(* runtime that exits on an unhandled rejection only cuts behaviours       *)
(* short.  client never emits 'launch_browser' (index.js 63-70 says so),   *)
(* so Restore runs once, from the startup flow.                            *)
(*                                                                         *)
(* Spec is one run of index.js.  SpecRoundTrip is index.js run again and   *)
(* again over one store (Persist in one run, Restore in a later one),      *)
(* SpecStrategy is SupabaseAuth constructed with any options and with its  *)
(* lifecycle hooks invoked by a caller, SpecContinuousFair is the          *)
(* continuous variant under the scheduling of Node's event loop.           *)
(***************************************************************************)
EXTENDS Naturals, Sequences, FiniteSets, TLC

\* ------------------------------------------------------------------ bounds
\* Uploads one run of the model issues in all, the watcher's handler being
\* the one held back when the bound is reached.
MaxPersists == 3
\* Requests to GET /backup-session that get as far as their upload.
MaxRequests == 1
\* Writes and deletes the messaging session makes in its directory.
MaxMutations == 2
\* ------------------------------------------------------------- the values
Modes == {"continuous", "manual"}

\* Relative paths inside authDir: the credential material of a logged-in
\* session, and one file in a subdirectory.
CredsPath == "creds"
DataPath == "sub/data"
Paths == {CredsPath, DataPath}
\* The order in which an archive lists its entries.
PathSeq == <<CredsPath, DataPath>>
\* The byte contents a file may have.
Contents == {1, 2}

\* `${this.sessionName}.zip`, the entry name Restore looks for and the last
\* segment of remoteFilePath; and another object under remoteDataPath.
ZipName == "session.zip"
OtherName == "other.zip"

\* The contents of a directory: a function from the paths of its files.
NoFiles == [q \in {} |-> 0]
FilesWith(p, c) == [q \in {p} |-> c]
AllFiles == UNION {[S -> Contents] : S \in SUBSET Paths}

WriteFile(files, p, c) ==
    [q \in (DOMAIN files) \cup {p} |-> IF q = p THEN c ELSE files[q]]

DeleteFile(files, p) == [q \in (DOMAIN files) \ {p} |-> files[q]]

\* --------------------------------------------------------- the constructor
\* An option the caller leaves out (undefined), and the values it may give.
\* index.js takes the first three from the environment, which may lack them
\* or hold an empty string.
Absent == "absent"
UrlValues == {Absent, "", "https://project.supabase.co"}
KeyValues == {Absent, "", "service-key"}
BucketValues == {Absent, "", "bucket"}
DefaultDataPath == "whatsapp/sessions"
DefaultSessionName == "session"

\* The options any caller may construct the strategy with: the three
\* required ones as above, the three optional ones all left out or all given.
AllOptions ==
    {[supabaseUrl |-> u, supabaseKey |-> k, bucketName |-> b,
      remoteDataPath |-> o[1], sessionName |-> o[2], debug |-> o[3]] :
        u \in UrlValues, k \in KeyValues, b \in BucketValues,
        o \in {<<Absent, Absent, Absent>>,
               <<"whatsapp\\sessions", "session", "true">>}}

\* The options index.js constructs it with.
IndexOptions ==
    [supabaseUrl : UrlValues, supabaseKey : KeyValues, bucketName : BucketValues,
     remoteDataPath : {"whatsapp/sessions"},
     sessionName : {"session"},
     debug : {"true"}]

\* JavaScript's `!v` is false: v is neither undefined nor the empty string.
Truthy(v) == v \notin {Absent, ""}

\* A destructuring default applies to an option that is undefined.
OrDefault(v, d) == IF v = Absent THEN d ELSE v

\* remoteDataPath.replace(/\\/g, '/')
Normalize(path) == IF path = "whatsapp\\sessions" THEN "whatsapp/sessions" ELSE path

\* A variant that checks the URL and the key only.
MissingCredentials(opts) ==
    ~Truthy(opts.supabaseUrl) \/ ~Truthy(opts.supabaseKey)

\* if (!supabaseUrl || !supabaseKey) throw ...; if (!bucketName) throw ...
MissingRequired(opts) ==
    \/ ~Truthy(opts.supabaseUrl) \/ ~Truthy(opts.supabaseKey)
    \/ ~Truthy(opts.bucketName)

\* new SupabaseAuth(opts): the fields of the object, or none when the
\* constructor throws.
Construct(opts) ==
    IF MissingRequired(opts)
    THEN [constructed |-> FALSE, supabaseUrl |-> Absent, supabaseKey |-> Absent,
          bucketName |-> Absent, remoteDataPath |-> Absent,
          sessionName |-> Absent, debug |-> FALSE]
    ELSE [constructed |-> TRUE,
          supabaseUrl |-> opts.supabaseUrl,
          supabaseKey |-> opts.supabaseKey,
          bucketName |-> opts.bucketName,
          remoteDataPath |-> Normalize(OrDefault(opts.remoteDataPath, DefaultDataPath)),
          sessionName |-> OrDefault(opts.sessionName, DefaultSessionName),
          debug |-> OrDefault(opts.debug, "false") = "true"]

\* The lifecycle notifications of the authentication-strategy interface.
LifecycleHooks ==
    {"onAuthenticationNeeded", "onAuthenticated", "onReady", "onLogout"}

\* ------------------------------------------------------ the archive codec
\* A zip blob: one entry per file, then the end-of-central-directory
\* record.  AdmZip refuses a blob without that record.
EndRecord == [name |-> "<END>", data |-> 0]

Entry(p, c) == [name |-> p, data |-> c]

\* A variant of packing that does not descend into subdirectories.
PackTopLevel(files) ==
    IF CredsPath \in DOMAIN files
    THEN <<[name |-> CredsPath, data |-> files[CredsPath]],
           [name |-> "<END>", data |-> 0]>>
    ELSE <<[name |-> "<END>", data |-> 0]>>

\* zip.addLocalFolder(authDir); zip.writeZip(zipPath)
Pack(files) ==
    LET present == SelectSeq(PathSeq, LAMBDA p : p \in DOMAIN files)
    IN  [i \in 1..Len(present) |-> Entry(present[i], files[present[i]])]
            \o <<EndRecord>>

\* new AdmZip(zipPath) succeeds
ValidZip(blob) == Len(blob) > 0 /\ blob[Len(blob)] = EndRecord

EntryNames(blob) == {blob[i].name : i \in 1..Len(blob)} \ {EndRecord.name}

EntryData(blob, p) == blob[CHOOSE i \in 1..Len(blob) : blob[i].name = p].data

\* A variant of extraction that keeps existing files:
\* extractAllTo(authDir, false).
UnpackKeeping(blob, files) ==
    [q \in (DOMAIN files) \cup EntryNames(blob) |->
        IF q \in DOMAIN files THEN files[q] ELSE EntryData(blob, q)]

\* zip.extractAllTo(authDir, true): every entry is written, overwriting the
\* file at its path; files the archive does not name are left alone.
Unpack(blob, files) ==
    [q \in (DOMAIN files) \cup EntryNames(blob) |->
        IF q \in EntryNames(blob) THEN EntryData(blob, q) ELSE files[q]]

\* A blob cut short: its end record is missing.
Truncate(blob) == SubSeq(blob, 1, Len(blob) - 1)

\* The directory holds the credentials of a logged-in session.
Working(files) == CredsPath \in DOMAIN files

\* The archive holds the credentials of a logged-in session.
HoldsSession(blob) == ValidZip(blob) /\ CredsPath \in EntryNames(blob)

\* --------------------------------------------------------------- the state
VARIABLES
    options,    \* the options the constructor was called with
    auth,       \* the SupabaseAuth object's fields, as Construct leaves them
    hookLog,    \* the last lifecycle notification debugLog has printed
    response,   \* the last answer GET /backup-session has sent
    mode,       \* which variant of the program runs
    store,      \* the bucket under remoteDataPath: object name -> blob
    dir,        \* authDir: [exists, files]
    zipFile,    \* the file at zipPath in the working directory
    restorePc,  \* where beforeBrowserInitialized is
    restoreBlob,\* downloadData, the blob Restore downloaded
    client,     \* the messaging client: uninit, initializing, ready
    hook,       \* where afterBrowserInitialized is
    watching,   \* the chokidar watcher is attached
    events,     \* watcher events emitted and not yet handled
    persists,   \* the uploadSessionZip calls that issued an upload, in order
    thrown,     \* the callers an uploadSessionZip call has thrown to
    mutations   \* writes and deletes the session has made

vars == <<options, auth, hookLog, response, mode, store, dir, zipFile,
          restorePc, restoreBlob, client, hook, watching, events, persists,
          thrown, mutations>>

\* The strategy object and its console output.
strategy == <<options, auth, hookLog>>

\* The ways Restore ends by returning, and those by throwing: at mkdirSync,
\* or at the write or the opening of the downloaded archive.
RestoreReturns == {"listFailed", "notFound", "downloadFailed", "restored"}
RestoreReturned == restorePc \in RestoreReturns
RestoreThrew == restorePc \in {"mkdirThrew", "threw"}
RestoreDone == RestoreReturned \/ RestoreThrew

RecordPresent == ZipName \in DOMAIN store

\* The stores a run may start against: empty, a foreign object only, the
\* archive of a logged-in session, and that archive truncated.
InitStores ==
    {[n \in {} |-> <<>>],
     [n \in {OtherName} |-> Pack(FilesWith(DataPath, 1))],
     [n \in {ZipName} |-> Pack(FilesWith(CredsPath, 1))],
     [n \in {ZipName} |-> Truncate(Pack(FilesWith(CredsPath, 1)))]}

\* The local directory a run may start with: absent (an ephemeral disk), or
\* left over from an earlier run, without or with credentials.
InitDirs ==
    {[exists |-> FALSE, files |-> NoFiles],
     [exists |-> TRUE, files |-> FilesWith(DataPath, 2)],
     [exists |-> TRUE, files |-> FilesWith(CredsPath, 2)]}

Init ==
    /\ options \in IndexOptions
    /\ auth = Construct(options)
    /\ hookLog = "none"
    /\ response = "none"
    /\ mode \in Modes
    /\ store \in InitStores
    /\ dir \in InitDirs
    /\ zipFile = <<>>
    /\ restorePc = "notStarted"
    /\ restoreBlob = <<>>
    /\ client = "uninit"
    /\ hook = "idle"
    /\ watching = FALSE
    /\ events = 0
    /\ persists = <<>>
    /\ thrown = {}
    /\ mutations = 0

\* ------------------------------------------------- Persist: uploadSessionZip
\* A variant that writes the archive inside the watched directory: an
\* attached watcher emits an event for the write.
EventsAfterPackInAuthDir(w, e) == IF w THEN e + 1 ELSE e

\* zipPath is path.join(process.cwd(), `${sessionName}.zip`), outside
\* authDir (cwd/.wwebjs_auth/<sessionName>): writing it is no event of the
\* watcher.
EventsAfterPack(w, e) == e

\* Whether the synchronous part of uploadSessionZip gets through:
\* addLocalFolder throws when authDir is missing, and writeZip/readFileSync
\* throw on an I/O failure (ioOk is the environment's choice).
PackSucceeds(ioOk) == dir.exists /\ ioOk

\* The call up to its await of the upload: the directory is packed into
\* zipPath, zipPath is read back into zipBuffer, the upload is issued.  A
\* failure before the upload throws out of the call.
\* `ev` is the number of watcher events pending when the call is entered.
uploadSessionZip(origin, ioOk, ev) ==
    IF PackSucceeds(ioOk)
    THEN LET written == Pack(dir.files)
         IN  /\ zipFile' = written
             /\ events' = EventsAfterPack(watching, ev)
             /\ persists' = Append(persists,
                    [origin |-> origin, buf |-> written, status |-> "uploading"])
             /\ UNCHANGED thrown
    ELSE /\ thrown' = thrown \cup {origin}
         /\ events' = ev
         /\ UNCHANGED <<zipFile, persists>>

\* A variant that reads zipPath only when the request is sent.
UploadBodyFromFile(p, file) == file

\* The body the upload request carries: zipBuffer, read before the await.
UploadBody(p, file) == p.buf

\* storage.upload(remoteFilePath, zipBuffer, {upsert: true}): the object is
\* replaced as a whole.
Upsert(st, blob) ==
    [n \in (DOMAIN st) \cup {ZipName} |-> IF n = ZipName THEN blob ELSE st[n]]

\* A variant without upsert: the store refuses an upload to a path that
\* holds an object.
UploadAcceptedIfNew(st) == ZipName \notin DOMAIN st

\* {upsert: true}: the store takes the upload whether or not an object is at
\* the path.
UploadAccepted(st) == TRUE

\* ------------------------------------------- Restore and the startup flow
\* The list call's answer: the names under remoteDataPath.
Listing == DOMAIN store

\* A variant that takes any entry of the listing for the session archive.
FoundAnyEntry(names) == names # {}

\* fileList.find(item => item.name === `${sessionName}.zip`)
FoundZip(names) == ZipName \in names

\* A variant that does not await Restore: client.initialize() is called at
\* once.
ClientWithoutAwait(pc) == "initializing"

\* The startup flow resumes after `await beforeBrowserInitialized()` and
\* calls client.initialize(); a throw rejects the flow before that call.
ClientAfterRestore(pc) == IF pc \in RestoreReturns THEN "initializing" ELSE client

\* The startup flow is entered: mkdirSync(authDir), then the list call is
\* issued.  mkdirSync throws on an I/O failure.
Startup ==
    /\ auth.constructed
    /\ restorePc = "notStarted"
    /\ \E ioOk \in BOOLEAN :
        IF ioOk
        THEN /\ dir' = [dir EXCEPT !.exists = TRUE]
             /\ restorePc' = "listing"
        ELSE /\ restorePc' = "mkdirThrew"
             /\ UNCHANGED dir
    /\ client' = ClientAfterRestore(restorePc')
    /\ UNCHANGED <<strategy, response, mode, store, zipFile, restoreBlob, hook, watching, events,
                   persists, thrown, mutations>>

\* The list call answers: an error, no matching entry, or a match, after
\* which the download is issued.
RestoreListed ==
    /\ restorePc = "listing"
    /\ \E listOk \in BOOLEAN :
        restorePc' = IF ~listOk THEN "listFailed"
                     ELSE IF ~FoundZip(Listing) THEN "notFound"
                     ELSE "downloading"
    /\ client' = ClientAfterRestore(restorePc')
    /\ UNCHANGED <<strategy, response, mode, store, dir, zipFile, restoreBlob, hook, watching,
                   events, persists, thrown, mutations>>

\* A variant without the check of the download's answer: Restore goes on to
\* read the data whether or not there is any.
PcIgnoringDownloadError(got) == "reading"

\* if (downloadErr || !downloadData) return; otherwise the data is read.
PcAfterDownload(got) == IF got THEN "reading" ELSE "downloadFailed"

\* The download answers: an error (or no data), or the object's blob.
RestoreDownloaded ==
    /\ restorePc = "downloading"
    /\ \E downloadOk \in BOOLEAN :
        LET got == downloadOk /\ RecordPresent
        IN  /\ restoreBlob' = IF got THEN store[ZipName] ELSE restoreBlob
            /\ restorePc' = PcAfterDownload(got)
    /\ client' = ClientAfterRestore(restorePc')
    /\ UNCHANGED <<strategy, response, mode, store, dir, zipFile, hook, watching, events,
                   persists, thrown, mutations>>

\* A variant that opens zipPath as it was before this call's write, that
\* is, as another call left it.
RestoreArchiveStale(blob, file) == file

\* The archive new AdmZip(zipPath) opens: writeFileSync(zipPath, buffer) and
\* the open are one synchronous run, so it is the blob just written; `file`
\* is what zipPath held before.
RestoreArchive(blob, file) == blob

\* After `await downloadData.arrayBuffer()`: the blob is written to zipPath,
\* opened as a zip and extracted over authDir.  writeFileSync throws on an
\* I/O failure, new AdmZip(zipPath) on a blob that is no zip.
RestoreUnpack ==
    /\ restorePc = "reading"
    /\ \E ioOk \in BOOLEAN :
        IF ~ioOk
        THEN /\ restorePc' = "threw"
             /\ UNCHANGED <<zipFile, dir>>
        ELSE LET archive == RestoreArchive(restoreBlob, zipFile)
             IN  /\ zipFile' = restoreBlob
                 /\ IF ValidZip(archive)
                    THEN /\ dir' = [dir EXCEPT
                                      !.files = Unpack(archive, dir.files)]
                         /\ restorePc' = "restored"
                    ELSE /\ restorePc' = "threw"
                         /\ UNCHANGED dir
    /\ client' = ClientAfterRestore(restorePc')
    /\ UNCHANGED <<strategy, response, mode, store, restoreBlob, hook, watching, events, persists,
                   thrown, mutations>>

\* ------------------------------------------------ the messaging session
\* The session (the browser behind client.initialize()) writes or deletes a
\* file of its directory; logging in writes the credentials, and a session
\* that stays logged in does not delete them.  An attached watcher emits one
\* event for it.
EventsAfterMutation(w, e) == IF w THEN e + 1 ELSE e

Mutation ==
    /\ client \in {"initializing", "ready"}
    /\ mutations < MaxMutations
    /\ \/ \E p \in Paths, c \in Contents :
            dir' = [dir EXCEPT !.files = WriteFile(dir.files, p, c)]
       \/ /\ DataPath \in DOMAIN dir.files
          /\ dir' = [dir EXCEPT !.files = DeleteFile(dir.files, DataPath)]
    /\ mutations' = mutations + 1
    /\ events' = EventsAfterMutation(watching, events)
    /\ UNCHANGED <<strategy, response, mode, store, zipFile, restorePc, restoreBlob, client, hook,
                   watching, persists, thrown>>

\* -------------------------------------- the post-start hook and its callers
\* A variant in which both variants of the hook attach the watcher.
AttachesWatcherAlways(m) == TRUE

\* Whether afterBrowserInitialized attaches a watcher once its own
\* uploadSessionZip() is over: the continuous variant does, the manual one
\* has none.
AttachesWatcher(m) == m = "continuous"

\* afterBrowserInitialized once its uploadSessionZip() call has ended: the
\* continuous variant catches a throw and goes on to attach the watcher; the
\* manual variant lets it reject the 'ready' handler.
HookAfterPersist(m, threw) == IF threw /\ m = "manual" THEN "rejected" ELSE "done"

\* client emits 'ready' (the session is logged in): the handler calls
\* afterBrowserInitialized, which calls uploadSessionZip().
OnReady ==
    /\ client = "initializing"
    /\ Working(dir.files)
    /\ client' = "ready"
    /\ \E ioOk \in BOOLEAN :
        /\ uploadSessionZip("hook", ioOk, events)
        /\ IF PackSucceeds(ioOk)
           THEN /\ hook' = "awaiting"
                /\ UNCHANGED watching
           ELSE /\ hook' = HookAfterPersist(mode, TRUE)
                /\ watching' = AttachesWatcher(mode)
    /\ UNCHANGED <<strategy, response, mode, store, dir, restorePc, restoreBlob, mutations>>

\* A variant that debounces: one run of the handler answers every pending
\* event.
EventsAfterCoalescing(e) == 0

\* How many pending events one run of the watcher's handler takes.
EventsAfterHandling(e) == e - 1

\* watcher.on('all'): the handler runs once per event and calls
\* uploadSessionZip() inside try/catch.
WatcherEvent ==
    /\ events > 0
    /\ Len(persists) < MaxPersists
    /\ \E ioOk \in BOOLEAN :
        uploadSessionZip("watcher", ioOk, EventsAfterHandling(events))
    /\ UNCHANGED <<strategy, response, mode, store, dir, restorePc, restoreBlob, client, hook,
                   watching, mutations>>

\* The server is listening from the moment the module has loaded, which is
\* after the startup flow has reached its first await.
RouteOpen(m, pc) == m = "manual" /\ pc # "notStarted"

\* The answers of the route: res.send('Session manually uploaded to
\* Supabase!'), and res.status(500).send(...).
RouteSuccess == "Session manually uploaded to Supabase!"
RouteError == "500"

\* try { await uploadSessionZip(); res.send(success) } catch { 500 }: the
\* answer depends on whether the call threw, and the call returns normally
\* whether or not its upload landed.
RouteResponse(threw, landed) == IF threw THEN RouteError ELSE RouteSuccess

\* GET /backup-session: uploadSessionZip() inside try/catch.  A call that
\* throws in packing is answered at once; the other answer comes when the
\* upload is over.
BackupRequest ==
    /\ RouteOpen(mode, restorePc)
    /\ Cardinality({i \in 1..Len(persists) : persists[i].origin = "route"}) < MaxRequests
    /\ \E ioOk \in BOOLEAN :
        /\ uploadSessionZip("route", ioOk, events)
        /\ response' = IF PackSucceeds(ioOk) THEN response
                       ELSE RouteResponse(TRUE, FALSE)
    /\ UNCHANGED <<strategy, mode, store, dir, restorePc, restoreBlob, client, hook,
                   watching, mutations>>

\* The upload of call i answers, with an error or not, and the call returns
\* to its caller (its zipBuffer is gone with it): the hook goes on, the route
\* answers, the watcher's handler ends.
UploadDone(i) ==
    /\ persists[i].status = "uploading"
    /\ \E uploadOk \in BOOLEAN :
        LET landed == uploadOk /\ UploadAccepted(store)
        IN  /\ store' = IF landed
                        THEN Upsert(store, UploadBody(persists[i], zipFile))
                        ELSE store
            /\ persists' = [persists EXCEPT
                  ![i].status = IF landed THEN "uploaded" ELSE "uploadFailed",
                  ![i].buf = <<>>]
            /\ response' = IF persists[i].origin = "route"
                           THEN RouteResponse(FALSE, landed)
                           ELSE response
    /\ IF persists[i].origin = "hook"
       THEN /\ hook' = HookAfterPersist(mode, FALSE)
            /\ watching' = AttachesWatcher(mode)
       ELSE UNCHANGED <<hook, watching>>
    /\ UNCHANGED <<strategy, mode, dir, zipFile, restorePc, restoreBlob, client, events,
                   thrown, mutations>>

UploadAnswered == \E i \in 1..Len(persists) : UploadDone(i)

Next ==
    \/ Startup
    \/ RestoreListed
    \/ RestoreDownloaded
    \/ RestoreUnpack
    \/ Mutation
    \/ OnReady
    \/ WatcherEvent
    \/ BackupRequest
    \/ UploadAnswered

Spec == Init /\ [][Next]_vars

\* ------------------------------------------- Persist, restart, Restore
\* The round trip of a directory through the store takes two runs of the
\* process: one that persists the directory, and a later one whose Restore
\* unpacks the record.  The directory of the first run is any tree; the
\* later run finds the directory as the earlier one left it, or none (an
\* ephemeral disk), or another one (a redeployment).
AllDirs ==
    {[exists |-> FALSE, files |-> NoFiles]} \cup
    {[exists |-> TRUE, files |-> f] : f \in AllFiles}

\* The process is started again: the module is loaded afresh, the store and
\* the working directory's zipPath are as the earlier run left them, and
\* uploads the earlier run had in flight are gone with it.
Restart ==
    /\ restorePc # "notStarted"
    /\ dir' \in AllDirs
    /\ restorePc' = "notStarted"
    /\ restoreBlob' = <<>>
    /\ client' = "uninit"
    /\ hook' = "idle"
    /\ watching' = FALSE
    /\ events' = 0
    /\ persists' = <<>>
    /\ thrown' = {}
    /\ mutations' = 0
    /\ response' = "none"
    /\ UNCHANGED <<strategy, mode, store, zipFile>>

\* The first run starts against an empty store with any directory.
InitRoundTrip ==
    /\ options \in {o \in IndexOptions : ~MissingRequired(o)}
    /\ auth = Construct(options)
    /\ hookLog = "none"
    /\ response = "none"
    /\ mode \in Modes
    /\ store = [n \in {} |-> <<>>]
    /\ dir \in AllDirs
    /\ zipFile = <<>>
    /\ restorePc = "notStarted"
    /\ restoreBlob = <<>>
    /\ client = "uninit"
    /\ hook = "idle"
    /\ watching = FALSE
    /\ events = 0
    /\ persists = <<>>
    /\ thrown = {}
    /\ mutations = 0

\* Restore and Persist over runs of the process, the directories being
\* drawn at the start of each run.
NextRoundTrip ==
    \/ Startup
    \/ RestoreListed
    \/ RestoreDownloaded
    \/ RestoreUnpack
    \/ OnReady
    \/ BackupRequest
    \/ UploadAnswered
    \/ Restart

SpecRoundTrip == InitRoundTrip /\ [][NextRoundTrip]_vars

\* -------------------------------------- the continuous variant, scheduled
\* The continuous variant alone: it has no backup route.
InitContinuous == Init /\ mode = "continuous"

NextContinuous ==
    \/ Startup
    \/ RestoreListed
    \/ RestoreDownloaded
    \/ RestoreUnpack
    \/ Mutation
    \/ OnReady
    \/ WatcherEvent
    \/ UploadAnswered

\* Node's event loop runs the watcher's handler for every event emitted,
\* and an upload that has been issued is answered (by the store or by a
\* network error).
SpecContinuousFair ==
    /\ InitContinuous
    /\ [][NextContinuous]_vars
    /\ WF_vars(WatcherEvent)
    /\ WF_vars(UploadAnswered)

\* ------------------------------------ the strategy under any caller
\* A variant in which onLogout removes the session directory's files, as
\* the library's own LocalAuth does on logout.
LifecycleHookWiping(h) ==
    /\ auth.constructed
    /\ hookLog' = IF auth.debug THEN h ELSE hookLog
    /\ dir' = IF h = "onLogout" THEN [dir EXCEPT !.files = NoFiles] ELSE dir
    /\ UNCHANGED <<options, auth, response, mode, store, zipFile, restorePc, restoreBlob,
                   client, hook, watching, events, persists, thrown, mutations>>

\* onAuthenticationNeeded, onAuthenticated, onReady, onLogout: one debugLog
\* line each, printed when debug is on.  index.js never hands the strategy
\* to the client, so only another caller invokes them.
LifecycleHook(h) ==
    /\ auth.constructed
    /\ hookLog' = IF auth.debug THEN h ELSE hookLog
    /\ UNCHANGED <<options, auth, response, mode, store, dir, zipFile, restorePc,
                   restoreBlob, client, hook, watching, events, persists,
                   thrown, mutations>>

LifecycleNotified == \E h \in LifecycleHooks : LifecycleHook(h)

\* The strategy constructed with any options, against a store that holds a
\* session archive and without a local directory.
InitStrategy ==
    /\ options \in AllOptions
    /\ auth = Construct(options)
    /\ hookLog = "none"
    /\ response = "none"
    /\ mode \in Modes
    /\ store = [n \in {ZipName} |-> Pack(FilesWith(CredsPath, 1))]
    /\ dir = [exists |-> FALSE, files |-> NoFiles]
    /\ zipFile = <<>>
    /\ restorePc = "notStarted"
    /\ restoreBlob = <<>>
    /\ client = "uninit"
    /\ hook = "idle"
    /\ watching = FALSE
    /\ events = 0
    /\ persists = <<>>
    /\ thrown = {}
    /\ mutations = 0

NextStrategy ==
    \/ Startup
    \/ RestoreListed
    \/ RestoreDownloaded
    \/ RestoreUnpack
    \/ Mutation
    \/ OnReady
    \/ WatcherEvent
    \/ BackupRequest
    \/ UploadAnswered
    \/ LifecycleNotified

SpecStrategy == InitStrategy /\ [][NextStrategy]_vars

\* ------------------------------------------------------------ the claims
\* What a step did, read off the two states of the step.
Uploading(i) == persists[i].status = "uploading"
InFlight == {i \in 1..Len(persists) : Uploading(i)}
Completed(i) == Uploading(i) /\ persists'[i].status = "uploaded"
Failed(i) == Uploading(i) /\ persists'[i].status = "uploadFailed"
\* A call of uploadSessionZip from `origin` began in this step: it issued an
\* upload, or it threw before that.
IssuedUpload(origin) ==
    /\ Len(persists') = Len(persists) + 1
    /\ persists'[Len(persists')].origin = origin
    /\ thrown' = thrown
ThrewInPack(origin) ==
    /\ persists' = persists
    /\ origin \in thrown'
PersistBegan(origin) == IssuedUpload(origin) \/ ThrewInPack(origin)
AnyPersistBegan == Len(persists') > Len(persists) \/ thrown' # thrown
MutationStep == mutations' = mutations + 1

\* blob is a complete archive of exactly the files `files`: it ends in the
\* end record and holds one entry per file, with that file's content.
ArchiveOf(blob, files) ==
    /\ ValidZip(blob)
    /\ Len(blob) = Cardinality(DOMAIN files) + 1
    /\ \A p \in DOMAIN files :
          \E i \in 1..(Len(blob) - 1) : blob[i] = Entry(p, files[p])

\* C1: Restore (beforeBrowserInitialized) never throws or rejects to its
\* caller, whatever fails: the list, the match, the download, the write of
\* the downloaded archive, the unpacking of a corrupt archive.
RestoreNeverThrows == restorePc # "threw"

\* C2: once Restore is over, whatever it found in the remote store (no
\* record, no answer, a failed download, a corrupt archive), the startup flow
\* has started the messaging session (client.initialize() has been called).
SessionStartsAfterRestore ==
    (RestoreReturned \/ restorePc = "threw") => client # "uninit"

\* C3: Persist (uploadSessionZip) never throws or rejects to its caller, be
\* the caller the post-start hook, the watcher's handler or the route.
PersistNeverThrows == thrown = {}

\* C4: when Restore has degraded to a fresh start on a list or download
\* failure while the remote record holds a logged-in session, no Persist
\* replaces that record by an archive without a logged-in session.
WorkingRecordNeverLost ==
    [][(/\ restorePc \in {"listFailed", "downloadFailed"}
        /\ RecordPresent
        /\ HoldsSession(store[ZipName])
        /\ store' # store)
       => HoldsSession(store'[ZipName])]_vars

\* C5: the remote record changes only when an upload completes successfully,
\* and then becomes, as a whole, the archive that very Persist packed, which
\* is a complete archive of the directory as it was when packed; an upload
\* that fails, and every other step, leaves the store as it was; no other
\* object of the store is touched.
RecordIsLastCompletedArchive ==
    [][/\ \A i \in 1..Len(persists) :
            Completed(i) => /\ ZipName \in DOMAIN store'
                            /\ store'[ZipName] = persists[i].buf
                            /\ \E f \in AllFiles : ArchiveOf(store'[ZipName], f)
       /\ \A i \in 1..Len(persists) : Failed(i) => store' = store
       /\ (\A i \in 1..Len(persists) : ~Completed(i)) => store' = store
       /\ \A n \in DOMAIN store : n # ZipName =>
            n \in DOMAIN store' /\ store'[n] = store[n]
       /\ Len(persists') > Len(persists) =>
            ArchiveOf(persists'[Len(persists')].buf, dir.files)]_vars

\* C5, its case: of two overlapping Persists the one started later has
\* completed while the earlier one, which packed another state, is still
\* uploading, and the record is the later one's archive.
OverlappingUploadLanded ==
    \E i, j \in 1..Len(persists) :
        /\ i < j
        /\ persists[i].status = "uploading"
        /\ persists[j].status = "uploaded"
        /\ RecordPresent
        /\ store[ZipName] = zipFile
        /\ store[ZipName] # persists[i].buf

\* C6: in Continuous mode, once the burst of events is over (none pending),
\* the last Persist started packed the final directory state and every
\* Persist has completed successfully, the remote record is the archive of
\* the final directory state.
LatestStateWins ==
    (/\ mode = "continuous"
     /\ watching
     /\ events = 0
     /\ thrown = {}
     /\ Len(persists) > 0
     /\ \A i \in 1..Len(persists) : persists[i].status = "uploaded"
     /\ persists[Len(persists)].origin = "watcher"
     /\ zipFile = Pack(dir.files))
    => (RecordPresent /\ store[ZipName] = Pack(dir.files))

StuckUploadBlocksOnlyItself ==
    [][(/\ mode = "continuous"
        /\ client = "ready"
        /\ InFlight # {}
        /\ MutationStep)
       => events' = events + 1]_vars

\* C9: in Manual mode no watcher is ever attached and no event is pending;
\* the post-start hook begins exactly one Persist; a mutation begins none;
\* every Persist begun is the hook's one or a request's, one per step.
ManualPersistsOnlyOnDemand ==
    [][mode = "manual" =>
        /\ ~watching' /\ events' = 0
        /\ (hook = "idle" /\ hook' # "idle") => PersistBegan("hook")
        /\ MutationStep => persists' = persists /\ thrown' = thrown
        /\ AnyPersistBegan =>
              \/ PersistBegan("route") /\ hook' = hook
              \/ PersistBegan("hook") /\ hook = "idle" /\ hook' # "idle"]_vars

\* C9, its case: in Manual mode the hook's Persist is over, the session has
\* mutated its directory, and a request has begun a Persist of its own.
ManualHookAndRequest ==
    /\ mode = "manual"
    /\ hook = "done"
    /\ mutations = MaxMutations
    /\ \E i, j \in 1..Len(persists) :
          persists[i].origin = "hook" /\ persists[j].origin = "route"

\* C10: no Persist, from the hook, the watcher or the route, begins before
\* Restore is over.
NoPersistBeforeRestoreDone == [][AnyPersistBegan => RestoreDone]_vars

\* C11: Restore is entered once and never again; the messaging session is
\* started only in the step in which Restore returns, so never before, and
\* never when it has not returned; the post-start hook runs only once the
\* session has reported ready.
RestoreOnceBeforeSession ==
    [][/\ restorePc # "notStarted" => restorePc' # "notStarted"
       /\ RestoreDone => restorePc' = restorePc
       /\ (client = "uninit" /\ client' # "uninit") =>
             /\ ~RestoreDone
             /\ restorePc' \in RestoreReturns
             /\ client' = "initializing"
       /\ client' # "uninit" => restorePc' \in RestoreReturns
       /\ hook' # "idle" => client' = "ready"
       /\ (client' = "ready" /\ client # "ready") => hook = "idle" /\ hook' # "idle"]_vars

\* C11, its case: Restore has restored the session, the session has been
\* started and has reported ready, and the post-start hook has run.
RestoredThenReadyThenHook ==
    /\ restorePc = "restored"
    /\ client = "ready"
    /\ hook = "done"

\* C12: when the listing answers without an entry named session.zip (an
\* empty listing, or other names only), Restore downloads nothing, writes
\* nothing and returns; with the step that enters Restore, which creates the
\* directory and leaves its files alone, the directory is as created.
DegradeOnMissing ==
    [][/\ (restorePc = "listing" /\ ZipName \notin DOMAIN store) =>
             /\ restorePc' \in {"listing", "notFound", "listFailed"}
             /\ restoreBlob' = <<>>
       /\ (restorePc = "listing" /\ restorePc' = "notFound") =>
             /\ ZipName \notin DOMAIN store
             /\ dir' = dir
             /\ zipFile' = zipFile
             /\ client' = "initializing"
       /\ (restorePc = "notStarted" /\ restorePc' = "listing") =>
             /\ dir'.exists
             /\ dir'.files = dir.files
       /\ restorePc = "notFound" => restorePc' = "notFound"]_vars

\* C12, its case: the listing held another object only, Restore has returned
\* "not found" and the directory left by an earlier run is as it was.
MissingWithOtherEntry ==
    /\ restorePc = "notFound"
    /\ DOMAIN store = {OtherName}
    /\ dir = [exists |-> TRUE, files |-> FilesWith(DataPath, 2)]
    /\ restoreBlob = <<>>
    /\ zipFile = <<>>
    /\ client = "initializing"

\* C13: when the list call or the download call fails, Restore returns: the
\* step leaves the directory and the temporary archive as they were and goes
\* on into client.initialize(); a download that brought no data never enters
\* the reading of the archive; and no step of Restore before the unpacking
\* touches the files of the directory.
DegradeOnRemoteFailure ==
    [][/\ (restorePc \in {"listing", "downloading"}
           /\ restorePc' \in {"listFailed", "downloadFailed"}) =>
             /\ dir' = dir
             /\ zipFile' = zipFile
             /\ restoreBlob' = <<>>
             /\ client' = "initializing"
       /\ restorePc' = "reading" => restoreBlob' # <<>>
       /\ restorePc \in {"notStarted", "listing", "downloading"} =>
             dir'.files = dir.files
       /\ restorePc \in {"listFailed", "downloadFailed"} =>
             restorePc' = restorePc]_vars

\* C13, its case: the record is there, its download has failed, Restore has
\* returned and the directory left by an earlier run is as it was.
DownloadFailedDirKept ==
    /\ restorePc = "downloadFailed"
    /\ RecordPresent
    /\ dir = [exists |-> TRUE, files |-> FilesWith(DataPath, 2)]
    /\ zipFile = <<>>
    /\ client = "initializing"

\* C14 as stated: after a successful Restore the directory holds exactly the
\* files of the downloaded archive and no others, whatever it held before.
RestoredDirIsExactlyArchive ==
    [][(restorePc = "reading" /\ restorePc' = "restored") =>
          ArchiveOf(restoreBlob, dir'.files)]_vars

\* C14, amended: after a successful Restore every file of the downloaded
\* archive is in the directory with the archive's content, and the other
\* files of the directory are those it held before, unchanged; a directory
\* that held no file outside the archive's paths holds exactly the archive's
\* files.
RestoredDirIsArchiveOverOld ==
    [][(restorePc = "reading" /\ restorePc' = "restored") =>
          /\ DOMAIN dir'.files = DOMAIN dir.files \cup EntryNames(restoreBlob)
          /\ \A p \in EntryNames(restoreBlob) :
                \E i \in 1..Len(restoreBlob) :
                    restoreBlob[i] = Entry(p, dir'.files[p])
          /\ \A p \in DOMAIN dir.files \ EntryNames(restoreBlob) :
                dir'.files[p] = dir.files[p]
          /\ DOMAIN dir.files \subseteq EntryNames(restoreBlob) =>
                ArchiveOf(restoreBlob, dir'.files)]_vars

\* C14, its case: Restore has unpacked an archive holding the credentials
\* only over a directory left by an earlier run with another file in it,
\* and the session has written nothing yet.
RestoredOverOtherFiles ==
    /\ restorePc = "restored"
    /\ mutations = 0
    /\ restoreBlob = Pack(FilesWith(CredsPath, 1))
    /\ DOMAIN dir.files = {CredsPath, DataPath}
    /\ dir.files[CredsPath] = 1
    /\ dir.files[DataPath] = 2

\* C15 as stated: the record being the archive Persist packed of a tree D,
\* a successful Restore into any directory leaves that directory with the
\* files of D exactly.
RoundTripIntoAnyDir ==
    [][\A D \in AllFiles :
          (restorePc = "reading" /\ restorePc' = "restored"
           /\ restoreBlob = Pack(D)) => dir'.files = D]_vars

\* C15, amended: the record being the archive Persist packed of a tree D
\* (empty, one file, or nested), a successful Restore leaves the directory
\* with every file of D, content included, and with the files it held at
\* other paths; it holds the files of D exactly when it held none at other
\* paths, and is unchanged when it held D itself.
RoundTripOverDir ==
    [][\A D \in AllFiles :
          (restorePc = "reading" /\ restorePc' = "restored"
           /\ restoreBlob = Pack(D)) =>
             /\ \A p \in DOMAIN D :
                   p \in DOMAIN dir'.files /\ dir'.files[p] = D[p]
             /\ \A p \in DOMAIN dir.files \ DOMAIN D :
                   p \in DOMAIN dir'.files /\ dir'.files[p] = dir.files[p]
             /\ DOMAIN dir'.files = DOMAIN dir.files \cup DOMAIN D
             /\ DOMAIN dir.files \subseteq DOMAIN D => dir'.files = D
             /\ dir.files = D => dir' = dir]_vars

\* C15, its case: a later run has restored a nested tree that an earlier
\* run persisted (no store starts with a record, and this run has persisted
\* nothing), and the directory holds that tree.
NestedTreeRoundTripped ==
    /\ restorePc = "restored"
    /\ persists = <<>>
    /\ thrown = {}
    /\ DOMAIN dir.files = {CredsPath, DataPath}
    /\ restoreBlob = Pack(dir.files)
    /\ store[ZipName] = restoreBlob

\* C16: a Persist whose archive equals the record that is already in the
\* store (a second Persist of an unchanged directory) can complete, the
\* existing record not being in its way, and whenever it completes the store
\* is as it was: one record under the name, with the same content.
SecondPersistLeavesRecord ==
    /\ [](\A i \in InFlight :
            (RecordPresent /\ store[ZipName] = persists[i].buf) =>
                ENABLED (/\ UploadDone(i)
                         /\ persists'[i].status = "uploaded"
                         /\ store' = store))
    /\ [][\A i \in 1..Len(persists) :
            (Completed(i) /\ RecordPresent /\ store[ZipName] = persists[i].buf)
                => store' = store]_vars

\* C16, its case: the hook's Persist has completed, then (the watcher is
\* attached only after it) the session has rewritten the credentials with
\* the content they had, and the watcher's Persist of the unchanged
\* directory has completed too; the record is the archive of the directory.
TwoPersistsOneRecord ==
    /\ mode = "continuous"
    /\ restorePc = "notFound"
    /\ mutations = 1
    /\ dir.files = FilesWith(CredsPath, 2)
    /\ Len(persists) = 2
    /\ persists[1].origin = "hook"
    /\ persists[2].origin = "watcher"
    /\ \A i \in 1..2 : persists[i].status = "uploaded"
    /\ DOMAIN store = {ZipName}
    /\ store[ZipName] = Pack(dir.files)

\* C17: the strategy is constructed exactly when store URL, store key and
\* bucket name are all given (an empty string counting as not given);
\* otherwise the constructor has thrown and nothing of the program runs.
\* Constructed, it holds the given values, with remoteDataPath defaulting to
\* "whatsapp/sessions" (backslashes turned into slashes), sessionName to
\* "session" and debug to off; and no step changes the options or the
\* fields.
ConstructionChecksAndDefaults ==
    /\ [](LET given(v) == v # Absent /\ v # ""
          IN  /\ auth.constructed <=>
                    /\ given(options.supabaseUrl)
                    /\ given(options.supabaseKey)
                    /\ given(options.bucketName)
              /\ auth.constructed =>
                    /\ auth.supabaseUrl = options.supabaseUrl
                    /\ auth.supabaseKey = options.supabaseKey
                    /\ auth.bucketName = options.bucketName
                    /\ auth.remoteDataPath = "whatsapp/sessions"
                    /\ auth.sessionName = "session"
                    /\ auth.debug = (options.debug = "true")
                    /\ options.debug = Absent => ~auth.debug
              /\ ~auth.constructed =>
                    /\ restorePc = "notStarted"
                    /\ client = "uninit"
                    /\ persists = <<>>
                    /\ hookLog = "none")
    /\ [][auth' = auth /\ options' = options]_vars

\* C17, its case: constructed with the optional options left out, the
\* strategy has restored the session and a Persist has completed.
DefaultsThroughRestoreAndPersist ==
    /\ auth.constructed
    /\ options.remoteDataPath = Absent
    /\ options.sessionName = Absent
    /\ options.debug = Absent
    /\ restorePc = "restored"
    /\ \E i \in 1..Len(persists) : persists[i].status = "uploaded"

\* C18: a lifecycle hook (a step that prints its notification) leaves the
\* session directory, the store, the temporary archive, the watcher and its
\* pending events, the Persists in flight and Restore as they are, and
\* starts no Restore or Persist.
LifecycleHooksAreNoOps ==
    [][hookLog' # hookLog =>
          /\ hookLog' \in LifecycleHooks
          /\ dir' = dir
          /\ store' = store
          /\ zipFile' = zipFile
          /\ watching' = watching
          /\ events' = events
          /\ persists' = persists
          /\ thrown' = thrown
          /\ restorePc' = restorePc
          /\ restoreBlob' = restoreBlob
          /\ client' = client
          /\ hook' = hook]_vars

\* C18, its case: onLogout has been invoked while the watcher is attached
\* and a Persist is in flight, after other work of the strategy.
LogoutNotifiedWhilePersisting ==
    /\ hookLog = "onLogout"
    /\ watching
    /\ InFlight # {}
    /\ Working(dir.files)
    /\ RecordPresent

\* C19: a Persist's zipBuffer is the archive that same call has just written
\* to zipPath, packed from the directory as it is, and its upload carries
\* that buffer whatever zipPath holds by then; Restore opens zipPath holding
\* the blob it has just written there, the one it downloaded: what it
\* extracts are that blob's entries, and it fails on the opening only when
\* that blob is no zip.
TempFileNeverReadAcrossCalls ==
    [][/\ Len(persists') = Len(persists) + 1 =>
             /\ zipFile' = persists'[Len(persists')].buf
             /\ ArchiveOf(persists'[Len(persists')].buf, dir.files)
       /\ \A i \in 1..Len(persists) :
             Completed(i) =>
                 /\ RecordPresent'
                 /\ store'[ZipName] = persists[i].buf
       /\ (restorePc = "reading" /\ restorePc' = "restored") =>
             /\ zipFile' = restoreBlob
             /\ ValidZip(restoreBlob)
             /\ \A p \in EntryNames(restoreBlob) :
                   /\ p \in DOMAIN dir'.files
                   /\ \E i \in 1..Len(restoreBlob) :
                         restoreBlob[i] = Entry(p, dir'.files[p])
       /\ (restorePc = "reading" /\ restorePc' = "threw") =>
             \/ zipFile' = zipFile /\ dir' = dir
             \/ zipFile' = restoreBlob /\ ~ValidZip(restoreBlob) /\ dir' = dir]_vars

\* C19, its case: a request's Persist packed the directory while Restore
\* was awaiting the store, Restore then wrote its download to the same
\* zipPath and unpacked it, and the Persist's upload has completed: the
\* record is the archive the Persist packed (of the directory before the
\* unpacking), not what zipPath holds.
PersistOverlappedRestore ==
    /\ restorePc = "restored"
    /\ mutations = 0
    /\ Len(persists) = 1
    /\ persists[1].origin = "route"
    /\ persists[1].status = "uploaded"
    /\ zipFile = restoreBlob
    /\ store[ZipName] # zipFile
    /\ store[ZipName] # Pack(dir.files)
    /\ ValidZip(store[ZipName])

\* C20: a Persist leaves the session directory as it is and emits no
\* watcher event: pending events grow only by a write or delete of the
\* session, one at a time; so the Persists that issued an upload, with the
\* events still to be handled, number at most one (the hook's) plus the
\* session's mutations; and in the continuous variant, the session's
\* mutations being finitely many and every upload being answered, the
\* program comes to rest with no event pending and no Persist in flight.
PersistsSettle ==
    /\ [][/\ (persists' # persists \/ thrown' # thrown) => dir' = dir
          /\ events' > events => (MutationStep /\ events' = events + 1)]_vars
    /\ [](Len(persists) + events <= 1 + mutations)
    /\ <>[](events = 0 /\ InFlight = {})

\* C20, its case: the session has made all its mutations with the watcher
\* attached, each has had its Persist after the hook's, every upload has
\* been answered and nothing is pending.
AllPersistsSettled ==
    /\ mode = "continuous"
    /\ watching
    /\ mutations = MaxMutations
    /\ Len(persists) = 1 + MaxMutations
    /\ \A i \in 1..Len(persists) : ~Uploading(i)
    /\ events = 0
    /\ thrown = {}

\* C21: the backup route answers by the outcome of the Persist it has
\* triggered: when the route's call ends, the answer is the success message
\* only if the archive has been uploaded to the store, and it is status 500
\* when the upload failed or the call threw.
RouteReportsOutcome ==
    [][/\ \A i \in 1..Len(persists) :
             (persists[i].origin = "route" /\ Completed(i)) =>
                 response' = RouteSuccess
       /\ \A i \in 1..Len(persists) :
             (persists[i].origin = "route" /\ Failed(i)) =>
                 response' = RouteError
       /\ ("route" \in thrown' /\ "route" \notin thrown) =>
             response' = RouteError]_vars

====
